---- MODULE Spec2Model ----
(***************************************************************************)
(* Multi-model text generation with health tracking and bounded retries.   *)
(*                                                                         *)
(*   anime_bot/ai/model_config.py     the catalogue AI_MODELS              *)
(*   anime_bot/ai/health_tracker.py   ModelHealthTracker                   *)
(*   anime_bot/ai/ai_client.py        MultiAIClient                        *)
(*   anime_bot/models/failure_tracker.py, anime_bot/utils/retry_handler.py *)
(*                                                                         *)
(* Nine specifications share the variables:                                *)
(*   Spec          calls of mark_success, mark_failure and reset_model     *)
(*   SpecQuery     the same, with the two list queries as calls            *)
(*   SpecLookup    the tracker's operations, with unknown identifiers too  *)
(*   SpecGenerate  calls of generate_with_fallback, one step per attempt   *)
(*   SpecHealth    the start-up health check, one step per probe           *)
(*   SpecRetry     one call of retry_with_backoff, one step per attempt    *)
(*   SpecReschedule  the same call, with calls of reschedule_failed_post   *)
(*                 before and after it                                     *)
(*   SpecStore     calls of log_failure and increment_failure_counter, and *)
(*                 restarts, of one process                                *)
(*   SpecShared    the same calls by two processes over one file           *)
(*                                                                         *)
(* Real numbers (latencies, success rates, scores) are exact rationals     *)
(* [n, d]; floating-point rounding is not modelled.  Wall-clock stamps     *)
(* (last_success, last_failure, last_updated) are not modelled.            *)
(***************************************************************************)
EXTENDS Integers, Sequences, FiniteSets, TLC

VARIABLES
    registry,           \* the catalogue the client iterates, in insertion order
    health_status,      \* ModelHealthTracker.health_status
    history,            \* per backend, the calls made on it: "S" mark_success,
                        \* "F" mark_failure, "R" reset_model
    lastOp,             \* the last call: "init", "mark", "reset", "rank", "healthy",
                        \* and on the failure store "log", "incr", "restart",
                        \* and "reschedule"
    lastArg,            \* its task type or tier filter (queries), its process (store)
    lastResult,         \* the list it returned (queries only)
    openrouter_client,  \* MultiAIClient.openrouter_client is set
    gemini_configured,  \* GEMINI_API_KEY is not a placeholder
    pc,                 \* generate_with_fallback: "idle", "trying", "done";
                        \* health_check_all_models: "idle", "probing", "checked"
    g_max,              \* its max_attempts_per_model
    candidates,         \* suitable_models, computed at the start of the call
    idx,                \* position in candidates
    attempt,            \* attempt number on candidates[idx]
    g_result,           \* the pair returned
    invoked,            \* the provider invocations of this call: [model, resp]
    g_start,            \* health_status when the call started
    genCalls,           \* generate_with_fallback calls started
    totalInvocations,   \* provider invocations made, over all calls
    rpc,                \* retry_with_backoff: "idle", "running", "returned"
    r_max,              \* its max_retries
    r_attempt,          \* the loop variable attempt
    r_trace,            \* what the call did, in order
    r_result,           \* what it returned
    r_before,           \* total_failures when the call started
    data,               \* FailureTracker.data (in memory)
    file,               \* failure_tracker.json: whether it exists, and its content
    data2,              \* FailureTracker.data of a second process over the same file
    appended            \* the entries log_failure was given since start-up, in order

trackerVars == <<health_status, history>>
queryVars == <<lastOp, lastArg, lastResult>>
configVars == <<registry, openrouter_client, gemini_configured>>
genVars == <<pc, g_max, candidates, idx, attempt, g_result, invoked, g_start,
             genCalls, totalInvocations>>
retryLocals == <<rpc, r_max, r_attempt, r_trace, r_result, r_before>>
storeVars == <<data, file, data2, appended>>
retryVars == <<retryLocals, storeVars>>
vars == <<trackerVars, queryVars, configVars, genVars, retryVars>>

(***************************************************************************)
(* Bounds of the model                                                     *)
(***************************************************************************)
MaxCalls == 3           \* tracker calls explored by Spec
MaxQueryCalls == 2      \* tracker calls explored by SpecQuery, between the queries
MaxInvocations == 5     \* provider invocations explored by SpecGenerate
MaxGenCalls == 2        \* generate_with_fallback calls explored
MaxAttemptsInput == 3   \* largest max_attempts_per_model tried
MaxRetriesInput == 8    \* largest max_retries tried
MaxStoredFailures == 1  \* largest total_failures found in the file at start-up
MaxLookupCalls == 2     \* record-changing tracker calls explored by SpecLookup
MaxSharedCalls == 3     \* calls per process explored by SpecShared
MaxLogCalls == 102      \* log_failure calls explored by SpecStore
MaxIncrements == 2      \* increment_failure_counter calls explored by SpecStore
MaxRescheduleFailures == 2  \* failed reschedule_failed_post calls explored

(***************************************************************************)
(* Exact rationals                                                         *)
(***************************************************************************)
RECURSIVE GCD(_, _)
GCD(a, b) == IF b = 0 THEN a ELSE GCD(b, a % b)

Abs(x) == IF x < 0 THEN -x ELSE x

Rat(n, d) ==
    LET g == GCD(Abs(n), d) IN
    IF n = 0 THEN [n |-> 0, d |-> 1] ELSE [n |-> n \div g, d |-> d \div g]

RatLess(a, b) == a.n * b.d < b.n * a.d

\* Python's tuple comparison: lexicographic, first differing component decides
RECURSIVE KeyLess(_, _)
KeyLess(k1, k2) ==
    IF k1 = <<>> THEN FALSE
    ELSE IF Head(k1) = Head(k2) THEN KeyLess(Tail(k1), Tail(k2))
    ELSE RatLess(Head(k1), Head(k2))

\* list.sort(key=..., reverse=True) on a list of <<name, key>> pairs: descending by
\* key, stable (equal keys keep their order)
RECURSIVE InsertPos(_, _, _)
InsertPos(sorted, x, i) ==
    IF i > Len(sorted) THEN i
    ELSE IF KeyLess(sorted[i][2], x[2]) THEN i
    ELSE InsertPos(sorted, x, i + 1)

RECURSIVE SortReverse(_)
SortReverse(list) ==
    IF list = <<>> THEN <<>>
    ELSE LET n == Len(list)
             front == SortReverse(SubSeq(list, 1, n - 1))
             x == list[n]
             p == InsertPos(front, x, 1)
         IN SubSeq(front, 1, p - 1) \o <<x>> \o SubSeq(front, p, Len(front))

\* [name for name, key in list]
RECURSIVE NamesOf(_)
NamesOf(list) == IF list = <<>> THEN <<>> ELSE <<Head(list)[1]>> \o NamesOf(Tail(list))

Range(s) == {s[i] : i \in DOMAIN s}

(***************************************************************************)
(* model_config.py: the catalogue                                          *)
(***************************************************************************)
AI_MODELS == <<
    [name |-> "gemini-2.0-flash", provider |-> "openrouter", tier |-> 1, speed |-> "very_fast",
     best_for |-> {"creative_writing", "sentiment_analysis", "image_analysis"}],
    [name |-> "llama-3.3-70b", provider |-> "openrouter", tier |-> 1, speed |-> "fast",
     best_for |-> {"instruction_following", "consistent_output", "long_context"}],
    [name |-> "qwen-2.5-72b", provider |-> "openrouter", tier |-> 1, speed |-> "fast",
     best_for |-> {"reasoning", "multilingual", "quality_check"}],
    [name |-> "llama-3.1-8b", provider |-> "openrouter", tier |-> 2, speed |-> "fast",
     best_for |-> {"reasoning", "analysis", "quick_tasks"}],
    [name |-> "hermes-3-405b", provider |-> "openrouter", tier |-> 2, speed |-> "slow",
     best_for |-> {"creative_writing", "roleplay"}],
    [name |-> "mistral-nemo", provider |-> "openrouter", tier |-> 3, speed |-> "very_fast",
     best_for |-> {"quick_tasks", "speed"}],
    [name |-> "gemini-direct", provider |-> "gemini_direct", tier |-> 1, speed |-> "very_fast",
     best_for |-> {"creative_writing", "long_context"}] >>

\* The two-backend catalogue of the specification's scenarios (section 8)
ScenarioModels == <<
    [name |-> "A", provider |-> "openrouter", tier |-> 1, speed |-> "fast", best_for |-> {"X"}],
    [name |-> "B", provider |-> "openrouter", tier |-> 3, speed |-> "very_fast", best_for |-> {"X"}] >>

Registries == {AI_MODELS, ScenarioModels}

Names(reg) == {reg[i].name : i \in DOMAIN reg}
Info(reg, name) == CHOOSE e \in Range(reg) : e.name = name

TaskTypes == {"creative_writing", "reasoning", "X"}
TierFilters == 0 .. 3        \* 0 stands for tier=None (both are falsy in the filter test)
ResponseTimes == {1, 3}

(***************************************************************************)
(* health_tracker.py                                                       *)
(***************************************************************************)
EmptyStatus ==
    [is_healthy |-> "None", consecutive_failures |-> 0, total_calls |-> 0,
     total_successes |-> 0, total_failures |-> 0, avg_response_time |-> Rat(0, 1)]

TrackerInit(reg) == [m \in Names(reg) |-> EmptyStatus]

\* mark_success that forgets to clear the failure streak
mark_success_keeps_streak(hs, model_name, response_time) ==
    LET status == hs[model_name]
        total == status.total_successes + 1
        current_avg == status.avg_response_time
    IN [hs EXCEPT ![model_name] =
           [status EXCEPT !.is_healthy = "True",
                          !.total_calls = @ + 1,
                          !.total_successes = total,
                          !.avg_response_time =
                              Rat(current_avg.n * (total - 1) + response_time * current_avg.d,
                                  current_avg.d * total)]]

\* mark_success that counts the success but not the call
mark_success_call_uncounted(hs, model_name, response_time) ==
    LET status == hs[model_name]
        total == status.total_successes + 1
        current_avg == status.avg_response_time
    IN [hs EXCEPT ![model_name] =
           [status EXCEPT !.is_healthy = "True",
                          !.consecutive_failures = 0,
                          !.total_successes = total,
                          !.avg_response_time =
                              Rat(current_avg.n * (total - 1) + response_time * current_avg.d,
                                  current_avg.d * total)]]

mark_success(hs, model_name, response_time) ==
    LET status == hs[model_name]
        total == status.total_successes + 1
        current_avg == status.avg_response_time
    IN [hs EXCEPT ![model_name] =
           [status EXCEPT !.is_healthy = "True",
                          !.consecutive_failures = 0,
                          !.total_calls = @ + 1,
                          !.total_successes = total,
                          !.avg_response_time =
                              Rat(current_avg.n * (total - 1) + response_time * current_avg.d,
                                  current_avg.d * total)]]

\* mark_failure that counts the call but not the failure
mark_failure_uncounted(hs, model_name) ==
    LET status == hs[model_name]
    IN [hs EXCEPT ![model_name] =
           [status EXCEPT !.is_healthy = "False",
                          !.consecutive_failures = @ + 1,
                          !.total_calls = @ + 1]]

mark_failure(hs, model_name) ==
    LET status == hs[model_name]
    IN [hs EXCEPT ![model_name] =
           [status EXCEPT !.is_healthy = "False",
                          !.consecutive_failures = @ + 1,
                          !.total_calls = @ + 1,
                          !.total_failures = @ + 1]]

\* a reset that leaves the failure streak as it is
reset_model_keeps_streak(hs, model_name) ==
    IF model_name \in DOMAIN hs
    THEN [hs EXCEPT ![model_name] = [@ EXCEPT !.is_healthy = "None"]]
    ELSE hs

\* a reset that clears the streak and leaves the health state as it is
reset_model_keeps_health(hs, model_name) ==
    IF model_name \in DOMAIN hs
    THEN [hs EXCEPT ![model_name] = [@ EXCEPT !.consecutive_failures = 0]]
    ELSE hs

\* a reset that starts the record over
reset_model_clears_counters(hs, model_name) ==
    IF model_name \in DOMAIN hs
    THEN [hs EXCEPT ![model_name] =
             [@ EXCEPT !.consecutive_failures = 0, !.is_healthy = "None",
                       !.total_calls = 0, !.total_successes = 0, !.total_failures = 0]]
    ELSE hs

reset_model(hs, model_name) ==
    IF model_name \in DOMAIN hs
    THEN [hs EXCEPT ![model_name] =
             [@ EXCEPT !.consecutive_failures = 0, !.is_healthy = "None"]]
    ELSE hs

Max(a, b) == IF a >= b THEN a ELSE b

SuccessRate(status) == Rat(status.total_successes, Max(status.total_calls, 1))

\* the filter with its streak test alone
HealthyKept_streak_only(hs, tier, model_info) ==
    /\ ~(hs[model_info.name].consecutive_failures >= 3)
    /\ ~(tier # 0 /\ model_info.tier # tier)

\* the three "continue" tests of the loop, negated
HealthyKept(hs, tier, model_info) ==
    /\ hs[model_info.name].is_healthy # "False"
    /\ ~(hs[model_info.name].consecutive_failures >= 3)
    /\ ~(tier # 0 /\ model_info.tier # tier)

HealthyKey(hs, model_info) ==
    <<SuccessRate(hs[model_info.name]), Rat(-(model_info.tier), 1),
      hs[model_info.name].avg_response_time>>

RECURSIVE HealthyList(_, _, _, _)
HealthyList(reg, hs, tier, i) ==
    IF i > Len(reg) THEN <<>>
    ELSE (IF HealthyKept(hs, tier, reg[i])
          THEN << <<reg[i].name, HealthyKey(hs, reg[i])>> >> ELSE <<>>)
         \o HealthyList(reg, hs, tier, i + 1)

get_healthy_models(reg, hs, tier) == NamesOf(SortReverse(HealthyList(reg, hs, tier, 1)))

(***************************************************************************)
(* ai_client.py: candidate selection                                       *)
(***************************************************************************)
\* the exclusion test with the healthy list's threshold
RankExcluded_threshold3(hs, name) ==
    /\ hs[name].is_healthy = "False"
    /\ hs[name].consecutive_failures >= 3

\* a skip of every backend that is not known to be healthy
RankExcluded_unproven(hs, name) == hs[name].is_healthy # "True"

RankExcluded(hs, name) ==
    /\ hs[name].is_healthy = "False"
    /\ hs[name].consecutive_failures >= 2

\* a speed bonus that is the same for every speed
speed_map_flat(speed) == 0

\* speed_map.get(model_info["speed"], 0)
speed_map(speed) ==
    CASE speed = "very_fast" -> 5
      [] speed = "fast" -> 3
      [] speed = "medium" -> 1
      [] speed = "slow" -> 0
      [] OTHER -> 0

\* the score without its tier bonus
Score_no_tier(hs, task_type, model_info) ==
    LET status == hs[model_info.name]
        task_bonus == IF task_type \in model_info.best_for THEN 30 ELSE 0
        health_bonus == IF status.is_healthy = "True" THEN 25
                        ELSE IF status.is_healthy = "None" THEN 10 ELSE 0
        whole == task_bonus + health_bonus + speed_map(model_info.speed)
    IN IF status.total_calls > 0
       THEN Rat(whole * status.total_calls + status.total_successes * 15, status.total_calls)
       ELSE Rat(whole, 1)

\* the score with the failure rate where the success rate is
Score_failure_rate(hs, task_type, model_info) ==
    LET status == hs[model_info.name]
        task_bonus == IF task_type \in model_info.best_for THEN 30 ELSE 0
        tier_bonus == (4 - model_info.tier) * 20
        health_bonus == IF status.is_healthy = "True" THEN 25
                        ELSE IF status.is_healthy = "None" THEN 10 ELSE 0
        whole == task_bonus + tier_bonus + health_bonus + speed_map(model_info.speed)
    IN IF status.total_calls > 0
       THEN Rat(whole * status.total_calls + status.total_failures * 15, status.total_calls)
       ELSE Rat(whole, 1)

Score(hs, task_type, model_info) ==
    LET status == hs[model_info.name]
        task_bonus == IF task_type \in model_info.best_for THEN 30 ELSE 0
        tier_bonus == (4 - model_info.tier) * 20
        health_bonus == IF status.is_healthy = "True" THEN 25
                        ELSE IF status.is_healthy = "None" THEN 10 ELSE 0
        whole == task_bonus + tier_bonus + health_bonus + speed_map(model_info.speed)
    IN IF status.total_calls > 0
       THEN Rat(whole * status.total_calls + status.total_successes * 15, status.total_calls)
       ELSE Rat(whole, 1)

\* the scoring loop without its skip
RECURSIVE scored_models_unfiltered(_, _, _, _)
scored_models_unfiltered(reg, hs, task_type, i) ==
    IF i > Len(reg) THEN <<>>
    ELSE << <<reg[i].name, <<Score(hs, task_type, reg[i])>> >> >>
         \o scored_models_unfiltered(reg, hs, task_type, i + 1)

RECURSIVE scored_models(_, _, _, _)
scored_models(reg, hs, task_type, i) ==
    IF i > Len(reg) THEN <<>>
    ELSE (IF RankExcluded(hs, reg[i].name) THEN <<>>
          ELSE << <<reg[i].name, <<Score(hs, task_type, reg[i])>> >> >>)
         \o scored_models(reg, hs, task_type, i + 1)

get_suitable_models(reg, hs, task_type) ==
    NamesOf(SortReverse(scored_models(reg, hs, task_type, 1)))

(***************************************************************************)
(* ai_client.py: the provider call and generate_with_fallback              *)
(*                                                                         *)
(* A provider response is a raise, a returned None, or a text, which is    *)
(* modelled by its length.                                                 *)
(***************************************************************************)
MIN_RESPONSE_LEN == 50

Raise == [kind |-> "raise", len |-> 0]
NoneResp == [kind |-> "none", len |-> 0]
Text(n) == [kind |-> "text", len |-> n]

ResponseLens == {MIN_RESPONSE_LEN, MIN_RESPONSE_LEN + 1}
Responses == {Raise, NoneResp} \cup {Text(n) : n \in ResponseLens}

NoResult == [text |-> NoneResp, model |-> "None"]

\* _call_single_model: what the call of this backend can produce
call_single_model(model_info, orc, gem) ==
    IF model_info.provider = "openrouter"
    THEN (IF ~orc THEN {Raise} ELSE Responses)
    ELSE IF model_info.provider = "gemini_direct"
    THEN (IF ~gem THEN {Raise} ELSE Responses)
    ELSE {NoneResp}

\* "if result:" without the length test
Usable_nonempty(resp) == resp.kind = "text" /\ resp.len > 0

\* "if result and len(result) > 50"
Usable(resp) == resp.kind = "text" /\ resp.len > MIN_RESPONSE_LEN

\* an except branch that only prints
AttemptRecord_silent(resp) == IF Usable(resp) THEN "S" ELSE "-"

\* the tracker call an attempt makes: "S" mark_success, "F" mark_failure, "-" none
AttemptRecord(resp) ==
    IF resp.kind = "raise" THEN "F"
    ELSE IF Usable(resp) THEN "S"
    ELSE "-"

\* the loops with a break out of the inner loop where the return is
NextPosition_break(resp, i, att, max_attempts, ncand) ==
    IF Usable(resp) /\ i < ncand THEN [pc |-> "trying", idx |-> i + 1, attempt |-> 1]
    ELSE IF Usable(resp) THEN [pc |-> "done", idx |-> i, attempt |-> att]
    ELSE IF att < max_attempts THEN [pc |-> "trying", idx |-> i, attempt |-> att + 1]
    ELSE IF i < ncand THEN [pc |-> "trying", idx |-> i + 1, attempt |-> 1]
    ELSE [pc |-> "done", idx |-> i, attempt |-> att]

\* the loops with an inner range that runs one pass too many
NextPosition_one_extra(resp, i, att, max_attempts, ncand) ==
    IF Usable(resp) THEN [pc |-> "done", idx |-> i, attempt |-> att]
    ELSE IF att <= max_attempts THEN [pc |-> "trying", idx |-> i, attempt |-> att + 1]
    ELSE IF i < ncand THEN [pc |-> "trying", idx |-> i + 1, attempt |-> 1]
    ELSE [pc |-> "done", idx |-> i, attempt |-> att]

\* the loops leaving a candidate after its second failed attempt
NextPosition_two_attempts(resp, i, att, max_attempts, ncand) ==
    IF Usable(resp) THEN [pc |-> "done", idx |-> i, attempt |-> att]
    ELSE IF att < max_attempts /\ att < 2 THEN [pc |-> "trying", idx |-> i, attempt |-> att + 1]
    ELSE IF i < ncand THEN [pc |-> "trying", idx |-> i + 1, attempt |-> 1]
    ELSE [pc |-> "done", idx |-> i, attempt |-> att]

\* where the loops stand after an attempt: the return on a usable response, the next
\* attempt, the next candidate, or the return after the last candidate
NextPosition(resp, i, att, max_attempts, ncand) ==
    IF Usable(resp) THEN [pc |-> "done", idx |-> i, attempt |-> att]
    ELSE IF att < max_attempts THEN [pc |-> "trying", idx |-> i, attempt |-> att + 1]
    ELSE IF i < ncand THEN [pc |-> "trying", idx |-> i + 1, attempt |-> 1]
    ELSE [pc |-> "done", idx |-> i, attempt |-> att]

(***************************************************************************)
(* failure_tracker.py                                                      *)
(***************************************************************************)
MAX_RETRY_ATTEMPTS == 5
RETRY_BASE_DELAY == 1
RETRY_MAX_DELAY == 32
FAILURE_LOG_CAP == 100

create_empty_data == [total_failures |-> 0, failure_log |-> <<>>]

NoFile == [exists |-> FALSE, total_failures |-> 0, failure_log |-> <<>>]

\* a log one entry short of the cap, left by earlier runs
OldLog == [i \in 1 .. FAILURE_LOG_CAP - 1 |-> [type |-> "old", retry_count |-> 0]]

\* what a failure_tracker.json left by an earlier run may hold
StoredFiles ==
    {NoFile}
    \cup {[exists |-> TRUE, total_failures |-> n, failure_log |-> <<>>] :
             n \in 0 .. MaxStoredFailures}
    \cup {[exists |-> TRUE, total_failures |-> MaxStoredFailures, failure_log |-> OldLog]}

\* _load_data: the file's content, or the empty structure when there is no file
load_data(f) ==
    IF f.exists THEN [total_failures |-> f.total_failures, failure_log |-> f.failure_log]
    ELSE create_empty_data

\* _save_data: the file takes the in-memory data (the write is taken to succeed)
save_data(d) ==
    [exists |-> TRUE, total_failures |-> d.total_failures, failure_log |-> d.failure_log]

increment_failure_counter(d) == [d EXCEPT !.total_failures = @ + 1]

\* failure_entry, without its timestamp and details
LogEntry(error_type, retry_count) == [type |-> error_type, retry_count |-> retry_count]

\* log_failure that, over the cap, drops the entry just appended
log_failure_drops_newest(d, error_type, retry_count) ==
    LET log == Append(d.failure_log, LogEntry(error_type, retry_count))
    IN [d EXCEPT !.failure_log =
           IF Len(log) > FAILURE_LOG_CAP THEN SubSeq(log, 1, FAILURE_LOG_CAP) ELSE log]

\* log_failure that leaves retry_count at its default
log_failure_default_count(d, error_type, retry_count) ==
    LET log == Append(d.failure_log, LogEntry(error_type, 0))
        n == Len(log)
    IN [d EXCEPT !.failure_log =
           IF n > FAILURE_LOG_CAP THEN SubSeq(log, n - FAILURE_LOG_CAP + 1, n)
           ELSE log]

\* log_failure that counts the entry as a failure too
log_failure_counts(d, error_type, retry_count) ==
    LET log == Append(d.failure_log, LogEntry(error_type, retry_count))
        n == Len(log)
    IN [d EXCEPT !.failure_log =
                     IF n > FAILURE_LOG_CAP THEN SubSeq(log, n - FAILURE_LOG_CAP + 1, n)
                     ELSE log,
                 !.total_failures = @ + 1]

log_failure(d, error_type, retry_count) ==
    LET log == Append(d.failure_log, LogEntry(error_type, retry_count))
        n == Len(log)
    IN [d EXCEPT !.failure_log =
           IF n > FAILURE_LOG_CAP THEN SubSeq(log, n - FAILURE_LOG_CAP + 1, n)
           ELSE log]

RECURSIVE Pow2(_)
Pow2(k) == IF k <= 0 THEN 1 ELSE 2 * Pow2(k - 1)

Min(a, b) == IF a <= b THEN a ELSE b

\* a delay that grows by the base delay at each attempt
calculate_retry_delay_linear(attempt_no) ==
    Min(RETRY_BASE_DELAY * attempt_no, RETRY_MAX_DELAY)

calculate_retry_delay(attempt_no) ==
    Min(RETRY_BASE_DELAY * Pow2(attempt_no - 1), RETRY_MAX_DELAY)

(***************************************************************************)
(* Initial state: a fresh client, a fresh tracker, no failure file yet     *)
(***************************************************************************)
GenIdle ==
    /\ pc = "idle"
    /\ g_max = 0
    /\ candidates = <<>>
    /\ idx = 0
    /\ attempt = 0
    /\ g_result = NoResult
    /\ invoked = <<>>
    /\ genCalls = 0
    /\ totalInvocations = 0

RetryIdle ==
    /\ rpc = "idle"
    /\ r_max = 0
    /\ r_attempt = 0
    /\ r_trace = <<>>
    /\ r_result = "None"
    /\ r_before = 0

InitWith(reg, orc, gem, stored) ==
    /\ registry = reg
    /\ health_status = TrackerInit(reg)
    /\ g_start = TrackerInit(reg)
    /\ history = [m \in Names(reg) |-> <<>>]
    /\ lastOp = "init"
    /\ lastArg = "none"
    /\ lastResult = <<>>
    /\ openrouter_client = orc
    /\ gemini_configured = gem
    /\ GenIdle
    /\ RetryIdle
    /\ file = stored
    /\ data = load_data(stored)
    /\ data2 = load_data(stored)
    /\ appended = <<>>

Init == \E reg \in Registries : InitWith(reg, TRUE, TRUE, NoFile)

(***************************************************************************)
(* Spec: the tracker's operations, called directly                         *)
(***************************************************************************)
RECURSIVE SumLen(_, _, _)
SumLen(h, reg, i) == IF i > Len(reg) THEN 0 ELSE Len(h[reg[i].name]) + SumLen(h, reg, i + 1)

CallsMade == SumLen(history, registry, 1)

MarkSuccess(m, rt) ==
    /\ health_status' = mark_success(health_status, m, rt)
    /\ history' = [history EXCEPT ![m] = Append(@, "S")]
    /\ lastOp' = "mark"
    /\ lastArg' = "none"
    /\ lastResult' = <<>>
    /\ UNCHANGED <<configVars, genVars, retryVars>>

MarkFailure(m) ==
    /\ health_status' = mark_failure(health_status, m)
    /\ history' = [history EXCEPT ![m] = Append(@, "F")]
    /\ lastOp' = "mark"
    /\ lastArg' = "none"
    /\ lastResult' = <<>>
    /\ UNCHANGED <<configVars, genVars, retryVars>>

ResetModel(m) ==
    /\ health_status' = reset_model(health_status, m)
    /\ history' = [history EXCEPT ![m] = Append(@, "R")]
    /\ lastOp' = "reset"
    /\ lastArg' = "none"
    /\ lastResult' = <<>>
    /\ UNCHANGED <<configVars, genVars, retryVars>>

Next ==
    \/ CallsMade < MaxCalls /\ \E m \in Names(registry), rt \in ResponseTimes : MarkSuccess(m, rt)
    \/ CallsMade < MaxCalls /\ \E m \in Names(registry) : MarkFailure(m)
    \/ CallsMade < MaxCalls /\ \E m \in Names(registry) : ResetModel(m)

Spec == Init /\ [][Next]_vars

(***************************************************************************)
(* SpecQuery: the same, with the two list queries as calls                 *)
(***************************************************************************)
\* every backend the ranking skips, reset
RECURSIVE ResetAll(_, _)
ResetAll(hs, S) ==
    IF S = {} THEN hs
    ELSE LET m == CHOOSE x \in S : TRUE IN ResetAll(reset_model(hs, m), S \ {m})

\* a ranking that revives the backends it skips
RankCall_revives(task_type) ==
    /\ lastOp' = "rank"
    /\ lastArg' = task_type
    /\ lastResult' = get_suitable_models(registry, health_status, task_type)
    /\ health_status' =
           ResetAll(health_status, {m \in Names(registry) : RankExcluded(health_status, m)})
    /\ UNCHANGED <<history, configVars, genVars, retryVars>>

\* api.get_best_model_for_task: a call of _get_suitable_models
RankCall(task_type) ==
    /\ lastOp' = "rank"
    /\ lastArg' = task_type
    /\ lastResult' = get_suitable_models(registry, health_status, task_type)
    /\ UNCHANGED <<trackerVars, configVars, genVars, retryVars>>

\* a healthy list that revives the backends it skips as unhealthy
HealthyCall_revives(tier) ==
    /\ lastOp' = "healthy"
    /\ lastArg' = tier
    /\ lastResult' = get_healthy_models(registry, health_status, tier)
    /\ health_status' =
           ResetAll(health_status,
                    {m \in Names(registry) : health_status[m].is_healthy = "False"})
    /\ UNCHANGED <<history, configVars, genVars, retryVars>>

\* api.get_healthy_models: a call of get_healthy_models
HealthyCall(tier) ==
    /\ lastOp' = "healthy"
    /\ lastArg' = tier
    /\ lastResult' = get_healthy_models(registry, health_status, tier)
    /\ UNCHANGED <<trackerVars, configVars, genVars, retryVars>>

NextQuery ==
    \/ CallsMade < MaxQueryCalls /\ \E m \in Names(registry), rt \in ResponseTimes : MarkSuccess(m, rt)
    \/ CallsMade < MaxQueryCalls /\ \E m \in Names(registry) : MarkFailure(m)
    \/ CallsMade < MaxQueryCalls /\ \E m \in Names(registry) : ResetModel(m)
    \/ \E t \in TaskTypes : RankCall(t)
    \/ \E tier \in TierFilters : HealthyCall(tier)

SpecQuery == Init /\ [][NextQuery]_vars

(***************************************************************************)
(* SpecLookup: the tracker's operations called with any identifier, one in *)
(* the catalogue or not                                                    *)
(*                                                                         *)
(* lastResult is <<"KeyError">> when the call raised, and <<"returned">>   *)
(* or <<"returned", value>> when it returned.                              *)
(***************************************************************************)
UnknownId == "no-such-model"
Identifiers(reg) == Names(reg) \cup {UnknownId}

\* self.health_status.get(model_name, {})
get_model_stats(hs, model_name) == IF model_name \in DOMAIN hs THEN hs[model_name] ELSE <<>>

LookupMarkSuccess(id, rt) ==
    /\ lastOp' = "mark_success"
    /\ lastArg' = id
    /\ IF id \in DOMAIN health_status
       THEN /\ health_status' = mark_success(health_status, id, rt)
            /\ history' = [history EXCEPT ![id] = Append(@, "S")]
            /\ lastResult' = <<"returned">>
       ELSE /\ lastResult' = <<"KeyError">>
            /\ UNCHANGED trackerVars
    /\ UNCHANGED <<configVars, genVars, retryVars>>

\* mark_failure that looks the record up with a default
LookupMarkFailure_lenient(id) ==
    /\ lastOp' = "mark_failure"
    /\ lastArg' = id
    /\ lastResult' = <<"returned">>
    /\ IF id \in DOMAIN health_status
       THEN /\ health_status' = mark_failure(health_status, id)
            /\ history' = [history EXCEPT ![id] = Append(@, "F")]
       ELSE UNCHANGED trackerVars
    /\ UNCHANGED <<configVars, genVars, retryVars>>

LookupMarkFailure(id) ==
    /\ lastOp' = "mark_failure"
    /\ lastArg' = id
    /\ IF id \in DOMAIN health_status
       THEN /\ health_status' = mark_failure(health_status, id)
            /\ history' = [history EXCEPT ![id] = Append(@, "F")]
            /\ lastResult' = <<"returned">>
       ELSE /\ lastResult' = <<"KeyError">>
            /\ UNCHANGED trackerVars
    /\ UNCHANGED <<configVars, genVars, retryVars>>

LookupReset(id) ==
    /\ lastOp' = "reset_model"
    /\ lastArg' = id
    /\ health_status' = reset_model(health_status, id)
    /\ history' = IF id \in DOMAIN history THEN [history EXCEPT ![id] = Append(@, "R")]
                  ELSE history
    /\ lastResult' = <<"returned">>
    /\ UNCHANGED <<configVars, genVars, retryVars>>

LookupStats(id) ==
    /\ lastOp' = "get_model_stats"
    /\ lastArg' = id
    /\ lastResult' = <<"returned", get_model_stats(health_status, id)>>
    /\ UNCHANGED <<trackerVars, configVars, genVars, retryVars>>

\* the identifiers a call may be given: any while record-changing calls are left,
\* then the unknown one only
CallIds == IF CallsMade < MaxLookupCalls THEN Identifiers(registry) ELSE {UnknownId}

NextLookup ==
    \/ \E id \in CallIds, rt \in ResponseTimes : LookupMarkSuccess(id, rt)
    \/ \E id \in CallIds : LookupMarkFailure(id)
    \/ \E id \in CallIds : LookupReset(id)
    \/ \E id \in Identifiers(registry) : LookupStats(id)

SpecLookup == Init /\ [][NextLookup]_vars

(***************************************************************************)
(* SpecGenerate: calls of generate_with_fallback, one step per attempt     *)
(***************************************************************************)
GenTaskTypes == {"creative_writing", "X"}

\* a start that, finding no candidate, revives every backend before it returns
GenStart_revives(task_type, max_attempts_per_model) ==
    /\ pc = "idle"
    /\ genCalls < MaxGenCalls
    /\ genCalls' = genCalls + 1
    /\ g_max' = max_attempts_per_model
    /\ g_start' = health_status
    /\ invoked' = <<>>
    /\ g_result' = NoResult
    /\ LET suitable_models == get_suitable_models(registry, health_status, task_type)
       IN /\ candidates' = suitable_models
          /\ IF suitable_models = <<>>
             THEN /\ pc' = "done" /\ idx' = 0 /\ attempt' = 0
                  /\ health_status' = ResetAll(health_status, Names(registry))
             ELSE /\ pc' = "trying" /\ idx' = 1 /\ attempt' = 1
                  /\ UNCHANGED health_status
    /\ UNCHANGED <<totalInvocations, history, queryVars, configVars, retryVars>>

\* generate_with_fallback up to its loop: the ranking and the empty-list return
GenStart(task_type, max_attempts_per_model) ==
    /\ pc = "idle"
    /\ genCalls < MaxGenCalls
    /\ genCalls' = genCalls + 1
    /\ g_max' = max_attempts_per_model
    /\ g_start' = health_status
    /\ invoked' = <<>>
    /\ g_result' = NoResult
    /\ LET suitable_models == get_suitable_models(registry, health_status, task_type)
       IN /\ candidates' = suitable_models
          /\ IF suitable_models = <<>>
             THEN pc' = "done" /\ idx' = 0 /\ attempt' = 0
             ELSE pc' = "trying" /\ idx' = 1 /\ attempt' = 1
    /\ UNCHANGED <<totalInvocations, trackerVars, queryVars, configVars, retryVars>>

\* one pass of the inner loop: the provider call and what follows it
GenAttempt(resp, rt) ==
    /\ pc = "trying"
    /\ totalInvocations < MaxInvocations
    /\ LET model_name == candidates[idx]
           rec == AttemptRecord(resp)
           pos == NextPosition(resp, idx, attempt, g_max, Len(candidates))
       IN /\ resp \in call_single_model(Info(registry, model_name),
                                        openrouter_client, gemini_configured)
          /\ rec = "S" \/ rt = 1
          /\ invoked' = Append(invoked, [model |-> model_name, resp |-> resp])
          /\ totalInvocations' = totalInvocations + 1
          /\ health_status' =
                 IF rec = "S" THEN mark_success(health_status, model_name, rt)
                 ELSE IF rec = "F" THEN mark_failure(health_status, model_name)
                 ELSE health_status
          /\ history' = IF rec = "-" THEN history
                        ELSE [history EXCEPT ![model_name] = Append(@, rec)]
          /\ g_result' = IF pos.pc = "done" /\ Usable(resp)
                         THEN [text |-> resp, model |-> model_name]
                         ELSE NoResult
          /\ pc' = pos.pc
          /\ idx' = pos.idx
          /\ attempt' = pos.attempt
    /\ UNCHANGED <<g_max, candidates, g_start, genCalls, queryVars, configVars, retryVars>>

\* the caller takes the pair; the call's locals go away
GenReturn ==
    /\ pc = "done"
    /\ pc' = "idle"
    /\ g_max' = 0
    /\ candidates' = <<>>
    /\ idx' = 0
    /\ attempt' = 0
    /\ g_result' = NoResult
    /\ invoked' = <<>>
    /\ g_start' = health_status
    /\ UNCHANGED <<genCalls, totalInvocations, trackerVars, queryVars, configVars, retryVars>>

InitGenerate ==
    \E reg \in Registries, orc \in BOOLEAN, gem \in BOOLEAN : InitWith(reg, orc, gem, NoFile)

NextGenerate ==
    \/ \E t \in GenTaskTypes, n \in 1 .. MaxAttemptsInput : GenStart(t, n)
    \/ \E resp \in Responses, rt \in ResponseTimes : GenAttempt(resp, rt)
    \/ GenReturn

SpecGenerate == InitGenerate /\ [][NextGenerate]_vars

(***************************************************************************)
(* SpecHealth: initialize_ai_system, that is health_check_all_models on a  *)
(* new client, one step per probe                                          *)
(*                                                                         *)
(* The probe asks for a two-letter answer, so the texts tried are short.   *)
(***************************************************************************)
ProbeLens == {0, 1}
ProbeResponses == {Raise, NoneResp} \cup {Text(n) : n \in ProbeLens}

\* _call_single_model on the test prompt: the branches of call_single_model
ProbeOutcomes(model_info, orc, gem) ==
    LET branch == call_single_model(model_info, orc, gem)
    IN IF branch \in {{Raise}, {NoneResp}} THEN branch ELSE ProbeResponses

\* a probe whose raise is printed and not recorded
ProbeRecord_raise_unrecorded(resp) ==
    IF resp.kind = "raise" THEN "-"
    ELSE IF resp.kind = "text" /\ resp.len > 0 THEN "S"
    ELSE "F"

\* the tracker call a probe makes: "if response and len(response) > 0" mark_success,
\* else mark_failure, and mark_failure in the except branch
ProbeRecord(resp) ==
    IF resp.kind = "raise" THEN "F"
    ELSE IF resp.kind = "text" /\ resp.len > 0 THEN "S"
    ELSE "F"

HealthCheckStart ==
    /\ pc = "idle"
    /\ lastOp = "init"
    /\ pc' = IF Len(registry) = 0 THEN "checked" ELSE "probing"
    /\ idx' = 1
    /\ invoked' = <<>>
    /\ g_start' = health_status
    /\ lastOp' = "health_check"
    /\ UNCHANGED <<g_max, candidates, attempt, g_result, genCalls, totalInvocations,
                   trackerVars, lastArg, lastResult, configVars, retryVars>>

\* one pass of the loop over the catalogue
HealthProbe(resp, rt) ==
    /\ pc = "probing"
    /\ LET model_info == registry[idx]
           model_name == model_info.name
           rec == ProbeRecord(resp)
       IN /\ resp \in ProbeOutcomes(model_info, openrouter_client, gemini_configured)
          /\ rec = "S" \/ rt = 1
          /\ invoked' = Append(invoked, [model |-> model_name, resp |-> resp])
          /\ health_status' =
                 IF rec = "S" THEN mark_success(health_status, model_name, rt)
                 ELSE IF rec = "F" THEN mark_failure(health_status, model_name)
                 ELSE health_status
          /\ history' = IF rec = "-" THEN history
                        ELSE [history EXCEPT ![model_name] = Append(@, rec)]
          /\ idx' = idx + 1
          /\ pc' = IF idx = Len(registry) THEN "checked" ELSE "probing"
    /\ UNCHANGED <<g_max, candidates, attempt, g_result, g_start, genCalls,
                   totalInvocations, queryVars, configVars, retryVars>>

\* after the loop: False when get_healthy_models() is empty, else True; the value
\* returned is kept in lastResult as a one-element list
HealthCheckReturn ==
    /\ pc = "checked"
    /\ pc' = "idle"
    /\ lastResult' = <<get_healthy_models(registry, health_status, 0) # <<>> >>
    /\ UNCHANGED <<g_max, candidates, idx, attempt, g_result, invoked, g_start, genCalls,
                   totalInvocations, trackerVars, lastOp, lastArg, configVars, retryVars>>

InitHealth ==
    \E reg \in Registries, orc \in BOOLEAN, gem \in BOOLEAN : InitWith(reg, orc, gem, NoFile)

NextHealth ==
    \/ HealthCheckStart
    \/ \E resp \in ProbeResponses, rt \in ResponseTimes : HealthProbe(resp, rt)
    \/ HealthCheckReturn

SpecHealth == InitHealth /\ [][NextHealth]_vars

(***************************************************************************)
(* SpecRetry: retry_handler.py, one call of retry_with_backoff, in a       *)
(* process that found any of StoredFiles at start-up                       *)
(*                                                                         *)
(* The operation's outcome at each attempt is the environment's choice:    *)
(* "raise", or a returned "None", "falsy" (False, "", 0) or "value".       *)
(* A returned None is turned into a raise by the code itself, so r_trace   *)
(* records both as "failed".  Jitter is in tenths of a second, and the     *)
(* two ends of uniform(0.1, 0.5) are tried.                                *)
(***************************************************************************)
Outcomes == {"raise", "None", "falsy", "value"}
Jitters == {1, 5}

Ev(e, a, b) == [ev |-> e, a |-> a, b |-> b]

\* an attempt with no except clause: what func raises leaves the call
ReturnsResult_uncaught(outcome) == outcome # "None"

\* "if result is not None" with a truthiness test instead
ReturnsResult_truthy(outcome) == outcome \notin {"raise", "None", "falsy"}

\* the attempt returns its result: func did not raise and "result is not None"
ReturnsResult(outcome) == outcome \notin {"raise", "None"}

\* the exhaustion branch without the counter increment
Exhausted_no_increment(d) ==
    [d2 |-> d,
     evs |-> <<Ev("notify_error", d.total_failures, 0)>>]

\* the exhaustion branch that notifies before it increments
Exhausted_notifies_first(d) ==
    LET d2 == increment_failure_counter(d)
    IN [d2 |-> d2,
        evs |-> <<Ev("notify_error", d.total_failures, 0), Ev("incr", d2.total_failures, 0)>>]

\* the else branch of "if attempt < max_retries": the final attempt failed
Exhausted(d) ==
    LET d2 == increment_failure_counter(d)
    IN [d2 |-> d2,
        evs |-> <<Ev("incr", d2.total_failures, 0), Ev("notify_error", d2.total_failures, 0)>>]

RetryStart(max_retries) ==
    /\ rpc = "idle"
    /\ r_max' = max_retries
    /\ r_attempt' = 1
    /\ r_trace' = <<>>
    /\ r_result' = "None"
    /\ r_before' = data.total_failures
    /\ rpc' = IF max_retries >= 1 THEN "running" ELSE "returned"
    /\ UNCHANGED <<storeVars, trackerVars, queryVars, configVars, genVars>>

\* one pass of the for loop
RetryAttempt(outcome, jitter) ==
    /\ rpc = "running"
    /\ IF ReturnsResult(outcome)
       THEN /\ r_trace' = Append(r_trace, Ev("call", r_attempt, outcome))
            /\ r_result' = outcome
            /\ rpc' = "returned"
            /\ UNCHANGED <<r_attempt, data, file, appended>>
       ELSE LET called == Append(r_trace, Ev("call", r_attempt,
                                   IF outcome \in {"raise", "None"} THEN "failed" ELSE outcome))
                logged == log_failure(data, "retry_attempt", r_attempt)
            IN IF r_attempt < r_max
               THEN LET delay == calculate_retry_delay(r_attempt)
                    IN /\ r_trace' = called \o <<Ev("log", r_attempt, 0),
                                                 Ev("notify_retry", r_attempt, delay),
                                                 Ev("sleep", delay, jitter)>>
                       /\ data' = logged
                       /\ appended' = Append(appended, LogEntry("retry_attempt", r_attempt))
                       /\ file' = save_data(logged)
                       /\ r_attempt' = r_attempt + 1
                       /\ UNCHANGED <<rpc, r_result>>
               ELSE LET x == Exhausted(logged)
                    IN /\ jitter = 1
                       /\ r_trace' = called \o <<Ev("log", r_attempt, 0)>> \o x.evs
                       /\ data' = x.d2
                       /\ appended' = Append(appended, LogEntry("retry_attempt", r_attempt))
                       /\ file' = save_data(x.d2)
                       /\ r_result' = "None"
                       /\ rpc' = "returned"
                       /\ UNCHANGED r_attempt
    /\ UNCHANGED <<r_max, r_before, data2, trackerVars, queryVars, configVars, genVars>>

\* PostExecutor.post_with_retry, given what execute_with_retry returned:
\* "return result is not None"
post_with_retry(result) == result # "None"

InitRetry == \E stored \in StoredFiles : InitWith(AI_MODELS, TRUE, TRUE, stored)

NextRetry ==
    \/ \E n \in 0 .. MaxRetriesInput : RetryStart(n)
    \/ \E o \in Outcomes, j \in Jitters : RetryAttempt(o, j)

SpecRetry == InitRetry /\ [][NextRetry]_vars

(***************************************************************************)
(* SpecReschedule: retry_handler.py, the retry call of SpecRetry and calls *)
(* of reschedule_failed_post made while no retry call is running           *)
(*                                                                         *)
(* The try block of reschedule_failed_post either gets through             *)
(* scheduler_func and returns True, or something in it raises (the         *)
(* caller's scheduler_func, post_data.get on a value that is no dict) and  *)
(* the handler counts a failure, notifies and returns False.  lastResult   *)
(* is the value returned, followed by the count the handler notified.      *)
(***************************************************************************)
RescheduleOutcomes == {"scheduled", "raise"}

reschedule_failed_post(outcome) ==
    /\ rpc # "running"
    /\ lastOp' = "reschedule"
    /\ IF outcome = "raise"
       THEN LET d2 == increment_failure_counter(data)
            IN /\ data.total_failures < data2.total_failures + MaxRescheduleFailures
               /\ data' = d2
               /\ file' = save_data(d2)
               /\ lastResult' = <<FALSE, d2.total_failures>>
       ELSE /\ lastResult' = <<TRUE>>
            /\ UNCHANGED <<data, file>>
    /\ UNCHANGED <<lastArg, data2, appended, retryLocals, trackerVars, configVars, genVars>>

NextReschedule ==
    \/ \E n \in 0 .. MaxRetriesInput : RetryStart(n)
    \/ \E o \in Outcomes, j \in Jitters : RetryAttempt(o, j)
    \/ \E o \in RescheduleOutcomes : reschedule_failed_post(o)

SpecReschedule == InitRetry /\ [][NextReschedule]_vars

(***************************************************************************)
(* SpecStore: failure_tracker.py, one process that starts with no file,    *)
(* calls log_failure and increment_failure_counter, and may restart        *)
(*                                                                         *)
(* Each log_failure call is given its own number as retry_count, so the    *)
(* entries of the log can be told apart.  A write of the file is taken to  *)
(* succeed.                                                                *)
(***************************************************************************)
ErrorTypes == {"retry_attempt"}

storeFrame == <<trackerVars, lastResult, configVars, genVars, retryLocals>>

StoreLog(error_type, retry_count) ==
    /\ data' = log_failure(data, error_type, retry_count)
    /\ file' = save_data(data')
    /\ appended' = Append(appended, LogEntry(error_type, retry_count))
    /\ lastOp' = "log"
    /\ lastArg' = 1
    /\ UNCHANGED <<data2, storeFrame>>

\* an increment that is kept in memory only
StoreIncrement_unflushed ==
    /\ data' = increment_failure_counter(data)
    /\ lastOp' = "incr"
    /\ lastArg' = 1
    /\ UNCHANGED <<file, data2, appended, storeFrame>>

StoreIncrement ==
    /\ data' = increment_failure_counter(data)
    /\ file' = save_data(data')
    /\ lastOp' = "incr"
    /\ lastArg' = 1
    /\ UNCHANGED <<data2, appended, storeFrame>>

\* the process ends and a new one builds its FailureTracker from the file
StoreRestart ==
    /\ data' = load_data(file)
    /\ lastOp' = "restart"
    /\ lastArg' = 1
    /\ UNCHANGED <<file, data2, appended, storeFrame>>

InitStore == InitWith(AI_MODELS, TRUE, TRUE, NoFile)

NextStore ==
    \/ Len(appended) < MaxLogCalls /\ \E t \in ErrorTypes : StoreLog(t, Len(appended) + 1)
    \/ data.total_failures < MaxIncrements /\ StoreIncrement
    \/ StoreRestart

SpecStore == InitStore /\ [][NextStore]_vars

(***************************************************************************)
(* SpecShared: two processes, each with the FailureTracker it loaded at    *)
(* start-up when there was no file yet, calling increment_failure_counter  *)
(* and log_failure over the same file.  Each call is one step: it changes  *)
(* the caller's data and rewrites the file from it.                        *)
(***************************************************************************)
Procs == {1, 2}

Mem(p) == IF p = 1 THEN data ELSE data2

\* the calls process p has made
SharedCalls(p) == Mem(p).total_failures + Len(Mem(p).failure_log)

\* process p's data becomes d, and the file is rewritten from it
SharedWrite(p, d) ==
    /\ data' = IF p = 1 THEN d ELSE data
    /\ data2' = IF p = 2 THEN d ELSE data2
    /\ file' = save_data(d)
    /\ lastArg' = p

\* an increment under a file lock: read the file, add one, write
SharedIncrement_locked(p) ==
    /\ SharedWrite(p, increment_failure_counter(
                          [Mem(p) EXCEPT !.total_failures = load_data(file).total_failures]))
    /\ lastOp' = "incr"
    /\ UNCHANGED <<appended, storeFrame>>

SharedIncrement(p) ==
    /\ SharedWrite(p, increment_failure_counter(Mem(p)))
    /\ lastOp' = "incr"
    /\ UNCHANGED <<appended, storeFrame>>

SharedLog(p, error_type, retry_count) ==
    /\ SharedWrite(p, log_failure(Mem(p), error_type, retry_count))
    /\ appended' = Append(appended, LogEntry(error_type, retry_count))
    /\ lastOp' = "log"
    /\ UNCHANGED storeFrame

NextShared ==
    \/ \E p \in Procs : SharedCalls(p) < MaxSharedCalls /\ SharedIncrement(p)
    \/ \E p \in Procs, t \in ErrorTypes :
           SharedCalls(p) < MaxSharedCalls /\ SharedLog(p, t, Len(appended) + 1)

SpecShared == InitStore /\ [][NextShared]_vars

(***************************************************************************)
(* Claims on the health tracker and the ranking                            *)
(***************************************************************************)
\* the mark_failure calls at the end of a call history, back to the last mark_success
RECURSIVE TrailingFailures(_)
TrailingFailures(h) ==
    IF h = <<>> THEN 0
    ELSE IF h[Len(h)] = "F" THEN 1 + TrailingFailures(SubSeq(h, 1, Len(h) - 1))
    ELSE 0

NeverReset(m) == "R" \notin Range(history[m])

Position(list, x) == CHOOSE i \in DOMAIN list : list[i] = x

\* x and y are both in the list and x comes first
RankedAbove(list, x, y) ==
    /\ x \in Range(list)
    /\ y \in Range(list)
    /\ Position(list, x) < Position(list, y)

\* C1: for every backend on which only mark_success / mark_failure were called,
\* consecutive_failures is the number of mark_failure calls since the most recent
\* mark_success (or since the start).
C1_ConsecutiveFailures ==
    \A m \in Names(registry) :
        NeverReset(m) =>
            health_status[m].consecutive_failures = TrailingFailures(history[m])

C1_Witness ==
    \E m \in Names(registry) :
        /\ history[m] = <<"S", "F", "F">>
        /\ health_status[m].consecutive_failures = 2

\* C2: a backend that is unhealthy with consecutive_failures >= 2 is in no ranking,
\* whatever the task type.
C2_ExcludedNotRanked ==
    \A m \in Names(registry), t \in TaskTypes :
        (health_status[m].is_healthy = "False" /\ health_status[m].consecutive_failures >= 2)
            => m \notin Range(get_suitable_models(registry, health_status, t))

C2_Witness ==
    \E m \in Names(registry) :
        /\ health_status[m].is_healthy = "False"
        /\ health_status[m].consecutive_failures = 2
        /\ get_suitable_models(registry, health_status, "creative_writing") # <<>>

C7_AsStated ==
    registry = ScenarioModels =>
        /\ (history["A"] = <<>> /\ history["B"] = <<>>) =>
               RankedAbove(get_suitable_models(registry, health_status, "X"), "A", "B")
        /\ (history["A"] = <<"F", "F", "F">> /\ history["B"] = <<>>) =>
               RankedAbove(get_suitable_models(registry, health_status, "X"), "B", "A")

\* C7 (amended): in the two-backend scenario the fresh ranking for X is [A, B]; after
\* three mark_failure calls on A the ranking for X is [B]: A is excluded from the
\* list, not ranked below B.
C7_ScenarioRanking ==
    registry = ScenarioModels =>
        /\ (history["A"] = <<>> /\ history["B"] = <<>>) =>
               get_suitable_models(registry, health_status, "X") = <<"A", "B">>
        /\ (history["A"] = <<"F", "F", "F">> /\ history["B"] = <<>>) =>
               get_suitable_models(registry, health_status, "X") = <<"B">>

C7_Witness ==
    /\ registry = ScenarioModels
    /\ history["A"] = <<"F", "F", "F">>
    /\ history["B"] = <<>>
    /\ health_status["A"].consecutive_failures = 3

(***************************************************************************)
(* Claims on retry_with_backoff                                            *)
(***************************************************************************)
Events(kind) == SelectSeq(r_trace, LAMBDA e : e.ev = kind)

NonDecreasing(evs) == \A i \in 1 .. Len(evs) - 1 : evs[i].a <= evs[i + 1].a

\* the operation failed k times and then returned a result (None excluded)
FailsThenSucceeds(k) ==
    LET calls == Events("call")
    IN /\ Len(calls) >= k + 1
       /\ \A i \in 1 .. k : calls[i].b = "failed"
       /\ calls[k + 1].b \in {"falsy", "value"}

\* C5: with max_retries = 5, when the operation fails k < 5 times and then succeeds,
\* the call returns that result after exactly k + 1 invocations and exactly k sleeps,
\* whose base delays are non-decreasing and at most 32 seconds.
C5_FailsKThenSucceeds ==
    \A k \in 0 .. MAX_RETRY_ATTEMPTS - 1 :
        (rpc = "returned" /\ r_max = MAX_RETRY_ATTEMPTS /\ FailsThenSucceeds(k)) =>
            /\ r_result = Events("call")[k + 1].b
            /\ Len(Events("call")) = k + 1
            /\ Len(Events("sleep")) = k
            /\ NonDecreasing(Events("sleep"))
            /\ \A i \in 1 .. k : Events("sleep")[i].a <= 32

C5_Witness ==
    /\ rpc = "returned"
    /\ r_max = MAX_RETRY_ATTEMPTS
    /\ FailsThenSucceeds(4)
    /\ r_result = "falsy"
    /\ Len(Events("sleep")) = 4
    /\ Events("sleep")[4].a = 8

\* every invocation made by the call failed
AlwaysFailed ==
    /\ Events("call") # <<>>
    /\ \A i \in 1 .. Len(Events("call")) : Events("call")[i].b = "failed"

\* C6: with max_retries = 5, when the operation fails at every attempt, the call
\* returns None after exactly 5 invocations, and total_failures, in memory and in
\* the file, is 1 more than before the call.
C6_AlwaysFailing ==
    (rpc = "returned" /\ r_max = MAX_RETRY_ATTEMPTS /\ AlwaysFailed) =>
        /\ r_result = "None"
        /\ Len(Events("call")) = 5
        /\ data.total_failures = r_before + 1
        /\ file.total_failures = r_before + 1

C6_Witness ==
    /\ rpc = "returned"
    /\ r_max = MAX_RETRY_ATTEMPTS
    /\ AlwaysFailed
    /\ r_before = 1
    /\ file.total_failures = 2

(***************************************************************************)
(* Claims on generate_with_fallback                                        *)
(***************************************************************************)
RECURSIVE CallsAdded(_, _, _, _)
CallsAdded(hs, before, reg, i) ==
    IF i > Len(reg) THEN 0
    ELSE hs[reg[i].name].total_calls - before[reg[i].name].total_calls
         + CallsAdded(hs, before, reg, i + 1)

\* the scenario's run: a fresh tracker, two attempts per backend, both attempts on A
\* fail (a raise or an unusable response) and the first attempt on B is usable
ScenarioRun ==
    /\ pc = "done"
    /\ registry = ScenarioModels
    /\ g_start = TrackerInit(registry)
    /\ g_max = 2
    /\ candidates = <<"A", "B">>
    /\ Len(invoked) = 3
    /\ invoked[1].model = "A" /\ ~Usable(invoked[1].resp)
    /\ invoked[2].model = "A" /\ ~Usable(invoked[2].resp)
    /\ invoked[3].model = "B" /\ Usable(invoked[3].resp)

\* C8: after the scenario's run the call returns (text, B) and the tracker shows A
\* with 2 calls and 0 successes and B with 1 call and 1 success, whatever the kind of
\* A's two failures.
C8_AsStated ==
    ScenarioRun =>
        /\ g_result = [text |-> invoked[3].resp, model |-> "B"]
        /\ health_status["A"].total_calls = 2
        /\ health_status["A"].total_successes = 0
        /\ health_status["B"].total_calls = 1
        /\ health_status["B"].total_successes = 1

\* C9: when a generate call returns, total_calls has grown, summed over the backends,
\* by the number of provider invocations the call made.
C9_AsStated ==
    pc = "done" => CallsAdded(health_status, g_start, registry, 1) = Len(invoked)

\* C10: a usable response is the last provider invocation of its call: the call is
\* over, it returns that text with that candidate, and the candidate has its
\* mark_success recorded.
C10_FirstSuccessEndsSearch ==
    \A i \in DOMAIN invoked :
        Usable(invoked[i].resp) =>
            LET m == invoked[i].model
            IN /\ i = Len(invoked)
               /\ pc = "done"
               /\ g_result = [text |-> invoked[i].resp, model |-> m]
               /\ history[m] # <<>> /\ history[m][Len(history[m])] = "S"
               /\ health_status[m].total_successes = g_start[m].total_successes + 1
               /\ health_status[m].is_healthy = "True"

C10_Witness ==
    /\ pc = "done"
    /\ Len(invoked) >= 2
    /\ Usable(invoked[Len(invoked)].resp)
    /\ idx < Len(candidates)
    /\ g_result.model = candidates[idx]

\* every backend is unhealthy with consecutive_failures >= 2
AllExcluded ==
    \A m \in Names(registry) :
        health_status[m].is_healthy = "False" /\ health_status[m].consecutive_failures >= 2

\* C11: a generate call finds an empty candidate list exactly when every backend is
\* unhealthy with consecutive_failures >= 2, and such a call returns (None, None)
\* having made no provider invocation and changed no health record.
C11_EmptyCandidates ==
    pc = "done" =>
        /\ (candidates = <<>>) <=> (\A m \in Names(registry) :
                                      /\ g_start[m].is_healthy = "False"
                                      /\ g_start[m].consecutive_failures >= 2)
        /\ candidates = <<>> =>
               /\ g_result = NoResult
               /\ invoked = <<>>
               /\ health_status = g_start

C11_Witness ==
    /\ pc = "done"
    /\ candidates = <<>>
    /\ AllExcluded
    /\ genCalls = 2
    /\ totalInvocations >= 4

\* the positions in invoked of the call's invocations of m, and of those that raised
InvocationsOf(m) == {i \in DOMAIN invoked : invoked[i].model = m}
RaisesOf(m) == {i \in InvocationsOf(m) : invoked[i].resp = Raise}

\* C12: every error a provider call raises is caught and recorded as exactly one
\* mark_failure on that candidate, the call going on to its next attempt; and a
\* call over with no usable response has made max_attempts_per_model invocations
\* of every candidate and returns (None, None).
C12_ProviderErrorsCaught ==
    /\ \A m \in Names(registry) :
           /\ health_status[m].total_failures - g_start[m].total_failures
                  = Cardinality(RaisesOf(m))
           /\ health_status[m].total_calls - g_start[m].total_calls
                  >= Cardinality(RaisesOf(m))
    /\ \A i \in DOMAIN invoked :
           invoked[i].resp = Raise => (i < Len(invoked) \/ pc \in {"trying", "done"})
    /\ (pc = "done" /\ \A i \in DOMAIN invoked : ~Usable(invoked[i].resp)) =>
           /\ g_result = NoResult
           /\ \A k \in DOMAIN candidates :
                  Cardinality(InvocationsOf(candidates[k])) = g_max

C12_Witness ==
    /\ pc = "done"
    /\ g_max = 2
    /\ Len(candidates) = 2
    /\ Len(invoked) = 4
    /\ invoked[1].resp = Raise
    /\ invoked[2].resp = NoneResp
    /\ invoked[4].resp = Raise
    /\ g_result = NoResult
    /\ health_status[candidates[1]].total_failures = 1

\* the provider of m has no usable credential, so every call of m raises at once
ConfigurationError(m) ==
    \/ Info(registry, m).provider = "openrouter" /\ ~openrouter_client
    \/ Info(registry, m).provider = "gemini_direct" /\ ~gemini_configured

\* C13: within one generate call a backend whose provider call fails on a missing or
\* placeholder credential is invoked at most once, whatever max_attempts_per_model.
C13_AsStated ==
    \A m \in Names(registry) :
        ConfigurationError(m) => Cardinality(InvocationsOf(m)) <= 1

C15_AsStated ==
    /\ \A i \in DOMAIN r_trace :
           (r_trace[i].ev = "call" /\ r_trace[i].b \in {"failed", "falsy"}) =>
               (i < Len(r_trace) /\ r_trace[i + 1].ev = "log")
    /\ rpc = "returned" =>
           /\ r_result # "falsy"
           /\ (Events("call") # <<>> /\ Events("call")[Len(Events("call"))].b # "value")
                  => ~post_with_retry(r_result)

(***************************************************************************)
(* Further claims on generate_with_fallback                                *)
(***************************************************************************)
\* the call returned the response of its i-th invocation
Accepted(i) ==
    /\ pc = "done"
    /\ i = Len(invoked)
    /\ g_result = [text |-> invoked[i].resp, model |-> invoked[i].model]

\* C16: a text response is accepted (returned by the call) exactly when its length
\* is at least 50 characters, the boundary length 50 included.
C16_AsStated ==
    \A i \in DOMAIN invoked :
        invoked[i].resp.kind = "text" =>
            (Accepted(i) <=> invoked[i].resp.len >= 50)

(***************************************************************************)
(* Claims on get_healthy_models and the health states                      *)
(***************************************************************************)
InHealthyList(m, tier) == m \in Range(get_healthy_models(registry, health_status, tier))

ClaimedOrder(x, y) ==
    LET sx == health_status[x]
        sy == health_status[y]
        rx == Rat(sx.total_successes, Max(sx.total_calls, 1))
        ry == Rat(sy.total_successes, Max(sy.total_calls, 1))
        tx == Info(registry, x).tier
        ty == Info(registry, y).tier
    IN \/ RatLess(ry, rx)
       \/ rx = ry /\ tx < ty
       \/ rx = ry /\ tx = ty /\ ~RatLess(sy.avg_response_time, sx.avg_response_time)

\* C18: the healthy list is ordered by success rate descending, then lower tier
\* number, then smaller average latency.
C18_AsStated ==
    LET healthy == get_healthy_models(registry, health_status, 0)
    IN \A i, j \in DOMAIN healthy : i < j => ClaimedOrder(healthy[i], healthy[j])

(***************************************************************************)
(* The score of the ranking                                                *)
(***************************************************************************)
RegistryPosition(m) == CHOOSE i \in DOMAIN registry : registry[i].name = m

\* the claimed score of m for task type t, as the fraction n / d:
\* (30 if t is an affinity) + (4 - tier) * 20 + (25 healthy, 10 untested, 0 unhealthy)
\* + 15 * successes / max(calls, 1) + (very_fast 5, fast 3, medium 1, otherwise 0)
ClaimedScore(m, t) ==
    LET info == Info(registry, m)
        st == health_status[m]
        d == Max(st.total_calls, 1)
        points == (IF t \in info.best_for THEN 30 ELSE 0)
                  + (4 - info.tier) * 20
                  + (CASE st.is_healthy = "True" -> 25
                       [] st.is_healthy = "None" -> 10
                       [] st.is_healthy = "False" -> 0)
                  + (CASE info.speed = "very_fast" -> 5
                       [] info.speed = "fast" -> 3
                       [] info.speed = "medium" -> 1
                       [] OTHER -> 0)
    IN [n |-> points * d + 15 * st.total_successes, d |-> d]

\* C19: for every task type the ranking holds exactly the backends that are not
\* unhealthy with consecutive_failures >= 2, each once, in descending order of the
\* claimed score, backends of equal score in registry order.
C19_ScoreOrder ==
    \A t \in TaskTypes :
        LET ranked == get_suitable_models(registry, health_status, t)
        IN /\ Range(ranked) =
                  {m \in Names(registry) :
                      ~(health_status[m].is_healthy = "False"
                        /\ health_status[m].consecutive_failures >= 2)}
           /\ Len(ranked) = Cardinality(Range(ranked))
           /\ \A i, j \in DOMAIN ranked :
                  i < j =>
                      LET a == ClaimedScore(ranked[i], t)
                          b == ClaimedScore(ranked[j], t)
                      IN /\ a.n * b.d >= b.n * a.d
                         /\ a.n * b.d = b.n * a.d =>
                                RegistryPosition(ranked[i]) < RegistryPosition(ranked[j])

C19_Witness ==
    LET ranked == get_suitable_models(registry, health_status, "reasoning")
    IN /\ registry = AI_MODELS
       /\ Len(ranked) = Len(registry) - 1
       /\ \E m \in Range(ranked) :
              /\ health_status[m].total_calls = 1
              /\ health_status[m].total_successes = 1
              /\ ranked[1] = m
              /\ RegistryPosition(m) > 1
       /\ \E i \in 1 .. Len(ranked) - 1 :
              ClaimedScore(ranked[i], "reasoning") = ClaimedScore(ranked[i + 1], "reasoning")

(***************************************************************************)
(* The health state machine                                                *)
(***************************************************************************)
\* the step made call c ("S" mark_success, "F" mark_failure, "R" reset_model) on m
Called(m, c) == history'[m] = Append(history[m], c)

\* C20: every backend starts untested and is always untested, healthy or unhealthy;
\* a step that calls mark_success on it leaves it healthy, mark_failure unhealthy,
\* reset_model untested with consecutive_failures = 0, from whatever state; a step
\* that calls none of them on it leaves its state as it was, so untested is
\* re-entered through reset_model only.
C20_HealthStateMachine ==
    /\ \A m \in Names(registry) : health_status[m].is_healthy = "None"
    /\ [](\A m \in Names(registry) : health_status[m].is_healthy \in {"None", "True", "False"})
    /\ [][\A m \in Names(registry) :
             /\ Called(m, "S") => health_status'[m].is_healthy = "True"
             /\ Called(m, "F") => health_status'[m].is_healthy = "False"
             /\ Called(m, "R") => /\ health_status'[m].is_healthy = "None"
                                  /\ health_status'[m].consecutive_failures = 0
             /\ history'[m] = history[m] =>
                    health_status'[m].is_healthy = health_status[m].is_healthy
             /\ (health_status[m].is_healthy # "None"
                 /\ health_status'[m].is_healthy = "None") => Called(m, "R")]_vars

C20_Witness ==
    \E m \in Names(registry) :
        /\ history[m] = <<"S", "F", "R">>
        /\ health_status[m].is_healthy = "None"
        /\ health_status[m].consecutive_failures = 0
        /\ health_status[m].total_calls = 2

(***************************************************************************)
(* Frame and invariants of the health records                              *)
(***************************************************************************)
\* C21: a step that calls mark_success on b leaves b healthy with
\* consecutive_failures 0, total_calls and total_successes one higher and
\* total_failures as it was; a step that calls mark_failure on b leaves b unhealthy
\* with consecutive_failures, total_calls and total_failures one higher and
\* total_successes and the average latency as they were; the record of every other
\* backend is as it was.
C21_MarkFrame ==
    [][\A b \in Names(registry) :
          LET old == health_status[b]
              new == health_status'[b]
          IN /\ Called(b, "S") =>
                    /\ new.is_healthy = "True"
                    /\ new.consecutive_failures = 0
                    /\ new.total_calls = old.total_calls + 1
                    /\ new.total_successes = old.total_successes + 1
                    /\ new.total_failures = old.total_failures
             /\ Called(b, "F") =>
                    /\ new.is_healthy = "False"
                    /\ new.consecutive_failures = old.consecutive_failures + 1
                    /\ new.total_calls = old.total_calls + 1
                    /\ new.total_failures = old.total_failures + 1
                    /\ new.total_successes = old.total_successes
                    /\ new.avg_response_time = old.avg_response_time
             /\ (Called(b, "S") \/ Called(b, "F")) =>
                    \A o \in Names(registry) \ {b} : health_status'[o] = health_status[o]]_vars

C21_Witness ==
    \E b, o \in Names(registry) :
        /\ b # o
        /\ history[b] = <<"S", "F">>
        /\ history[o] = <<"S">>
        /\ health_status[b].total_failures = 1
        /\ health_status[b].avg_response_time = Rat(3, 1)
        /\ health_status[o].is_healthy = "True"

(***************************************************************************)
(* Claims on the failure store                                             *)
(***************************************************************************)
\* the last n elements of a sequence, all of it when it is shorter
LastN(seq, n) == IF Len(seq) <= n THEN seq ELSE SubSeq(seq, Len(seq) - n + 1, Len(seq))

\* C22: from an empty store, after any sequence of log_failure and
\* increment_failure_counter calls the log holds at most 100 entries, and they are
\* the most recently appended ones, in append order.
C22_LogCap ==
    /\ Len(data.failure_log) <= 100
    /\ data.failure_log = LastN(appended, 100)

C22_Witness ==
    /\ Len(appended) = 102
    /\ Len(data.failure_log) = 100
    /\ data.failure_log[1].retry_count = 3
    /\ data.failure_log[100].retry_count = 102
    /\ data.total_failures = 1

HealthCheckReturned == lastOp = "health_check" /\ pc = "idle"

\* the probe of the i-th invocation got a non-empty text
ProbeSucceeded(i) == invoked[i].resp.kind = "text" /\ invoked[i].resp.len >= 1

\* C24: when the start-up health check has returned, every registered backend was
\* invoked exactly once, has total_calls = 1 and is healthy or unhealthy, and the
\* value returned is true exactly when some probe succeeded.
C24_HealthBaseline ==
    HealthCheckReturned =>
        /\ \A m \in Names(registry) :
               /\ Cardinality(InvocationsOf(m)) = 1
               /\ health_status[m].total_calls = 1
               /\ health_status[m].is_healthy \in {"True", "False"}
        /\ Len(invoked) = Len(registry)
        /\ lastResult[1] <=> \E i \in DOMAIN invoked : ProbeSucceeded(i)

C24_Witness ==
    /\ HealthCheckReturned
    /\ registry = AI_MODELS
    /\ lastResult = <<TRUE>>
    /\ Cardinality({i \in DOMAIN invoked : ProbeSucceeded(i)}) = 1
    /\ \E i \in DOMAIN invoked : invoked[i].resp = Text(0)
    /\ \E i \in DOMAIN invoked : invoked[i].resp = Raise

(***************************************************************************)
(* Claims on unknown identifiers                                           *)
(***************************************************************************)
TrackerOps == {"mark_success", "mark_failure", "reset_model", "get_model_stats"}

UnknownCall == lastOp \in TrackerOps /\ lastArg \notin Names(registry)

C26_LostUpdate ==
    /\ [](/\ lastOp \in {"incr", "log"} =>
                /\ file.exists
                /\ file.total_failures = Mem(lastArg).total_failures
                /\ file.failure_log = Mem(lastArg).failure_log
          /\ (data.total_failures >= 1 /\ data2.total_failures >= 1) =>
                file.total_failures < data.total_failures + data2.total_failures
          /\ \A i \in DOMAIN file.failure_log :
                \A p \in Procs \ {lastArg} :
                    file.failure_log[i] \notin Range(Mem(p).failure_log))
    /\ [][lastOp' = "incr" =>
             file'.total_failures =
                 (IF lastArg' = 1 THEN data ELSE data2).total_failures + 1]_vars

C26_Witness ==
    /\ data.total_failures = 1
    /\ data2.total_failures = 1
    /\ file.total_failures = 1
    /\ lastOp = "incr"
    /\ lastArg = 2
    /\ Len(data.failure_log) = 1
    /\ file.failure_log = <<>>

(***************************************************************************)
(* Claims on the backoff, the failure log and the order of effects of      *)
(* retry_with_backoff                                                      *)
(***************************************************************************)
\* the length of a sleep, in tenths of a second: its delay in seconds and its jitter
SleepTenths(e) == e.a * 10 + e.b

\* C27: the sleep after failed attempt n is min(2^(n-1), 32) seconds, that is 1, 2,
\* 4, 8 for n = 1..4, plus a jitter between 0.1 and 0.5 seconds; with max_retries = 5
\* no delay reaches 32 and each sleep is longer than the one before.
C27_BackoffDelays ==
    LET sleeps == Events("sleep")
    IN /\ \A n \in DOMAIN sleeps :
              /\ sleeps[n].a = (IF 2^(n - 1) < 32 THEN 2^(n - 1) ELSE 32)
              /\ n <= 4 => sleeps[n].a = <<1, 2, 4, 8>>[n]
              /\ sleeps[n].b >= 1 /\ sleeps[n].b <= 5
       /\ r_max = 5 =>
              /\ \A n \in DOMAIN sleeps : sleeps[n].a < 32
              /\ \A n \in 1 .. Len(sleeps) - 1 :
                     SleepTenths(sleeps[n]) < SleepTenths(sleeps[n + 1])

C27_Witness ==
    LET sleeps == Events("sleep")
    IN /\ rpc = "returned"
       /\ r_max = 5
       /\ Len(sleeps) = 4
       /\ sleeps[1].b = 5
       /\ sleeps[2].b = 1
       /\ sleeps[4].a = 8
       /\ r_result = "None"

\* the log the process found at start-up: no step of retry_with_backoff changes
\* data2, which was loaded from the same file
LogAtStart == data2.failure_log

FailedAttempts == Len(SelectSeq(r_trace, LAMBDA e : e.ev = "call" /\ e.b = "failed"))

\* C28: after f failed attempts (a raise or a returned None) the log, in memory and
\* in the file, is the log found at start-up followed by f entries of type
\* "retry_attempt" with retry_count 1..f in order, cut to its last 100 entries; a
\* call whose first attempt succeeds has appended nothing.
C28_OneEntryPerFailure ==
    LET expected == [i \in 1 .. FailedAttempts |->
                        [type |-> "retry_attempt", retry_count |-> i]]
        log == LastN(LogAtStart \o expected, 100)
    IN /\ data.failure_log = log
       /\ file.failure_log = log
       /\ appended = expected

C28_Witness ==
    /\ rpc = "returned"
    /\ r_result = "value"
    /\ FailedAttempts = 3
    /\ Len(LogAtStart) = 99
    /\ Len(file.failure_log) = 100
    /\ file.failure_log[1].type = "old"
    /\ file.failure_log[98] = [type |-> "retry_attempt", retry_count |-> 1]
    /\ file.failure_log[100] = [type |-> "retry_attempt", retry_count |-> 3]

\* the kinds of the events of r_trace from position i on
KindsFrom(i) == [k \in 1 .. Len(r_trace) - i + 1 |-> r_trace[i + k - 1].ev]

\* C29: a failed attempt before the last is followed by its log entry, then the
\* retry notification, then the sleep, in that order; the last failed attempt is
\* followed by its log entry, then the counter increment, then one error
\* notification carrying the incremented count, and then the call returns None:
\* no retry notification and no sleep come after the final attempt.
C29_OrderAtExhaustion ==
    /\ \A i \in DOMAIN r_trace :
           (r_trace[i].ev = "call" /\ r_trace[i].b = "failed") =>
               IF r_trace[i].a < r_max
               THEN /\ Len(r_trace) >= i + 3
                    /\ r_trace[i + 1] = Ev("log", r_trace[i].a, 0)
                    /\ r_trace[i + 2].ev = "notify_retry" /\ r_trace[i + 2].a = r_trace[i].a
                    /\ r_trace[i + 3].ev = "sleep" /\ r_trace[i + 3].a = r_trace[i + 2].b
               ELSE /\ KindsFrom(i) = <<"call", "log", "incr", "notify_error">>
                    /\ r_trace[i + 1].a = r_max
                    /\ r_trace[i + 2].a = r_before + 1
                    /\ r_trace[i + 3].a = r_before + 1
                    /\ data.total_failures = r_before + 1
                    /\ rpc = "returned"
                    /\ r_result = "None"
    /\ \A i \in DOMAIN r_trace :
           r_trace[i].ev \in {"notify_retry", "sleep"} =>
               \/ rpc = "running"
               \/ \E j \in i + 1 .. Len(r_trace) : r_trace[j].ev = "call"
    /\ Len(Events("notify_error")) <= 1

C29_Witness ==
    /\ rpc = "returned"
    /\ r_result = "None"
    /\ r_max = 3
    /\ r_before = 1
    /\ Len(r_trace) = 12
    /\ r_trace[12] = Ev("notify_error", 2, 0)
    /\ r_trace[11] = Ev("incr", 2, 0)
    /\ r_trace[8].ev = "sleep"

(***************************************************************************)
(* Invariant of the health records                                         *)
(***************************************************************************)
\* C30: after any sequence of mark_success, mark_failure and reset_model calls,
\* every health record has total_calls = total_successes + total_failures and
\* 0 <= consecutive_failures <= total_failures.
C30_RecordCounts ==
    \A m \in Names(registry) :
        LET st == health_status[m]
        IN /\ st.total_calls = st.total_successes + st.total_failures
           /\ 0 <= st.consecutive_failures
           /\ st.consecutive_failures <= st.total_failures

C30_Witness ==
    \E m \in Names(registry) :
        /\ history[m] = <<"F", "R", "F">>
        /\ health_status[m].total_failures = 2
        /\ health_status[m].consecutive_failures = 1
        /\ health_status[m].total_calls = 2

(***************************************************************************)
(* The failure streak and the health state                                 *)
(***************************************************************************)
\* C31: a backend has consecutive_failures > 0 if and only if it is unhealthy; so a
\* backend that passes the unhealthy test of get_healthy_models never has
\* consecutive_failures >= 3, and the list is the same without that second test.
C31_StreakIffUnhealthy ==
    \A m \in Names(registry) :
        /\ health_status[m].consecutive_failures > 0 <=> health_status[m].is_healthy = "False"
        /\ health_status[m].is_healthy \in {"None", "True"} =>
               /\ health_status[m].consecutive_failures = 0
               /\ InHealthyList(m, 0)

C31_Witness ==
    /\ registry = AI_MODELS
    /\ \E m, n \in Names(registry) :
           /\ health_status[m].consecutive_failures = 2
           /\ history[m] = <<"F", "F">>
           /\ history[n] = <<"R">>
           /\ ~InHealthyList(m, 0)
           /\ InHealthyList(n, 0)

(***************************************************************************)
(* Claims on the candidates of generate_with_fallback                      *)
(***************************************************************************)
\* the record is unhealthy with consecutive_failures >= 2
ExcludedRecord(st) == st.is_healthy = "False" /\ st.consecutive_failures >= 2

\* C32: a backend that is unhealthy with consecutive_failures >= 2 when a generate
\* call starts gets no provider invocation in that call and its record stays as it
\* was; between calls its record does not change either, so the condition lasts
\* over any sequence of generate calls; and a call that starts with every backend
\* in that condition returns (None, None) with no provider invocation.
C32_ExclusionAbsorbing ==
    /\ [](/\ \A m \in Names(registry) :
                ExcludedRecord(g_start[m]) =>
                    /\ InvocationsOf(m) = {}
                    /\ health_status[m] = g_start[m]
          /\ (pc = "done" /\ \A m \in Names(registry) : ExcludedRecord(g_start[m])) =>
                (g_result = NoResult /\ invoked = <<>>))
    /\ [][\A m \in Names(registry) :
             (pc \in {"idle", "done"} /\ ExcludedRecord(health_status[m])) =>
                 /\ health_status'[m] = health_status[m]
                 /\ m \notin Range(candidates')]_vars

C32_Witness ==
    /\ genCalls = 2
    /\ pc = "done"
    /\ invoked # <<>>
    /\ Usable(invoked[Len(invoked)].resp)
    /\ \E m \in Names(registry) :
           /\ ExcludedRecord(g_start[m])
           /\ g_start[m].consecutive_failures = 2
           /\ m \notin Range(candidates)

\* C33: during a call the candidate list is the ranking of the tracker state the
\* call started in, and the invocations walk it in order: every candidate before
\* the current one was invoked max_attempts_per_model times, the current one
\* attempt - 1 times so far, the later ones not yet, whatever their health has
\* become meanwhile (in the witness a candidate is invoked a third time after two
\* raises made it unhealthy with consecutive_failures = 2).
C33_CandidatesFixed ==
    /\ [](pc = "trying" =>
             /\ \E t \in GenTaskTypes :
                    candidates = get_suitable_models(registry, g_start, t)
             /\ \A k \in DOMAIN candidates :
                    Cardinality(InvocationsOf(candidates[k])) =
                        (IF k < idx THEN g_max ELSE IF k = idx THEN attempt - 1 ELSE 0)
             /\ \A i, j \in DOMAIN invoked :
                    i < j => Position(candidates, invoked[i].model)
                                <= Position(candidates, invoked[j].model))
    /\ [][pc = "trying" => candidates' \in {candidates, <<>>}]_vars

C33_Witness ==
    /\ g_max = 3
    /\ Len(invoked) = 3
    /\ \A i \in 1 .. 3 : invoked[i] = [model |-> candidates[1], resp |-> Raise]
    /\ health_status[candidates[1]].consecutive_failures = 3
    /\ Len(candidates) >= 2

\* the passes of the loops still ahead of a call, the current one included
PassesLeft ==
    IF pc = "trying" THEN (Len(candidates) - idx) * g_max + (g_max - attempt) + 1 ELSE 0

\* C34: a call makes at most |candidates| x max_attempts_per_model provider
\* invocations, at most max_attempts_per_model of them on any one candidate and
\* none on a backend outside the ranked list; it terminates, because the number
\* of loop passes still ahead is never negative, every invocation lowers it, the
\* invocations made and the passes ahead never exceed the product together, and
\* a call in its loops can always make its next invocation.
C34_BoundedInvocations ==
    /\ [](/\ Len(invoked) + PassesLeft <= Len(candidates) * g_max
          /\ PassesLeft >= 0
          /\ \A i \in DOMAIN invoked : invoked[i].model \in Range(candidates)
          /\ \A m \in Names(registry) : Cardinality(InvocationsOf(m)) <= g_max
          /\ (pc = "trying" /\ totalInvocations < MaxInvocations) =>
                 ENABLED (\E resp \in Responses, rt \in ResponseTimes : GenAttempt(resp, rt)))
    /\ [][pc = "trying" =>
             /\ PassesLeft' < PassesLeft
             /\ Len(invoked') = Len(invoked) + 1]_vars

C34_Witness ==
    /\ pc = "done"
    /\ g_result = NoResult
    /\ g_max = 2
    /\ Len(candidates) = 2
    /\ Len(invoked) = 4
    /\ \A m \in Range(candidates) : Cardinality(InvocationsOf(m)) = 2

\* C35: what a call returns is either (None, None) or a pair with both parts
\* present, never a text without an id or an id without a text; a returned text
\* is the response of the last provider invocation made, longer than 50
\* characters, the id is the candidate that was invoked for it, and at the return
\* that backend's record is healthy with consecutive_failures = 0.  Before the
\* return there is no pair.
C35_ReturnedPair ==
    /\ (g_result.text = NoneResp) <=> (g_result.model = "None")
    /\ pc # "done" => g_result = NoResult
    /\ (pc = "done" /\ g_result # NoResult) =>
           /\ invoked # <<>>
           /\ g_result.text = invoked[Len(invoked)].resp
           /\ g_result.text.kind = "text"
           /\ g_result.text.len > MIN_RESPONSE_LEN
           /\ g_result.model = invoked[Len(invoked)].model
           /\ g_result.model = candidates[idx]
           /\ health_status[g_result.model].is_healthy = "True"
           /\ health_status[g_result.model].consecutive_failures = 0

C35_Witness ==
    /\ pc = "done"
    /\ g_result # NoResult
    /\ Len(invoked) >= 2
    /\ invoked[Len(invoked) - 1] = [model |-> g_result.model, resp |-> Raise]
    /\ g_result.text = Text(MIN_RESPONSE_LEN + 1)
    /\ health_status[g_result.model].consecutive_failures = 0

\* the points the rank score gives for a health state
HealthPoints(st) ==
    CASE st.is_healthy = "True" -> 25
      [] st.is_healthy = "None" -> 10
      [] OTHER -> 0

\* C36: a step that calls reset_model on m leaves m untested with
\* consecutive_failures 0 and its total_calls, total_successes, total_failures and
\* average latency as they were, and leaves the record of every other backend as
\* it was; so m's success rate is the same after the reset, and for every task
\* type its rank score differs from the one before only by the health points
\* (10 for untested in place of those of the state it left).
C36_ResetFrame ==
    [][\A m \in Names(registry) :
          Called(m, "R") =>
              LET old == health_status[m]
                  new == health_status'[m]
              IN /\ new.is_healthy = "None"
                 /\ new.consecutive_failures = 0
                 /\ new.total_calls = old.total_calls
                 /\ new.total_successes = old.total_successes
                 /\ new.total_failures = old.total_failures
                 /\ new.avg_response_time = old.avg_response_time
                 /\ DOMAIN new = DOMAIN old
                 /\ \A n \in Names(registry) \ {m} : health_status'[n] = health_status[n]
                 /\ SuccessRate(new) = SuccessRate(old)
                 /\ \A t \in TaskTypes :
                        LET a == Score(health_status, t, Info(registry, m))
                            b == Score(health_status', t, Info(registry, m))
                        IN b.n * a.d + HealthPoints(old) * a.d * b.d
                               = a.n * b.d + HealthPoints(new) * a.d * b.d]_vars

C36_Witness ==
    \E m \in Names(registry) :
        /\ history[m] = <<"F", "S", "R">>
        /\ health_status[m].is_healthy = "None"
        /\ health_status[m].total_calls = 2
        /\ health_status[m].total_failures = 1
        /\ SuccessRate(health_status[m]) = Rat(1, 2)

\* C37: in every tracker state and for every task type the backends of
\* get_healthy_models() without a tier filter are all in the list of
\* _get_suitable_models: no backend the healthy list reports is skipped by the
\* ranking.
C37_HealthyAreRanked ==
    /\ \A t \in TaskTypes :
           Range(get_healthy_models(registry, health_status, 0))
               \subseteq Range(get_suitable_models(registry, health_status, t))
    /\ \A m \in Names(registry) : InHealthyList(m, 0) => ~RankExcluded(health_status, m)

C37_Witness ==
    /\ registry = AI_MODELS
    /\ \E m, n \in Names(registry) :
           /\ history[m] = <<"F", "F">>
           /\ history[n] = <<"F">>
           /\ RankExcluded(health_status, m)
           /\ ~InHealthyList(n, 0)
           /\ \A t \in TaskTypes :
                  /\ n \in Range(get_suitable_models(registry, health_status, t))
                  /\ m \notin Range(get_suitable_models(registry, health_status, t))
           /\ Len(get_healthy_models(registry, health_status, 0)) = Len(registry) - 2

\* the score the ranking code computes from m's record, before and after a step
ScoreOf(m, t) == Score(health_status, t, Info(registry, m))
ScoreAfter(m, t) == Score(health_status', t, Info(registry, m))

\* C38: for every backend and task type, a step that calls mark_success on m does
\* not lower the score computed from m's record and a step that calls
\* mark_failure on m does not raise it; either leaves the score of every other
\* backend as it was.
C38_ScoreMonotone ==
    [][\A m \in Names(registry), t \in TaskTypes :
          /\ Called(m, "S") => ~RatLess(ScoreAfter(m, t), ScoreOf(m, t))
          /\ Called(m, "F") => ~RatLess(ScoreOf(m, t), ScoreAfter(m, t))
          /\ (Called(m, "S") \/ Called(m, "F")) =>
                 \A n \in Names(registry) \ {m} : ScoreAfter(n, t) = ScoreOf(n, t)]_vars

C38_Witness ==
    \E m \in Names(registry) :
        /\ history[m] = <<"F", "S", "F">>
        /\ health_status[m].total_successes = 1
        /\ \A t \in TaskTypes :
               LET info == Info(registry, m)
                   whole == (IF t \in info.best_for THEN 30 ELSE 0)
                            + (4 - info.tier) * 20 + speed_map(info.speed)
               IN ScoreOf(m, t) = Rat(whole + 5, 1)

\* the step is the exhaustion branch of retry_with_backoff
ExhaustionStep == rpc = "running" /\ rpc' = "returned" /\ r_result' = "None"

\* the step is the return of a result by retry_with_backoff
SuccessStep == rpc = "running" /\ rpc' = "returned" /\ r_result' # "None"

\* the step is the exception handler of reschedule_failed_post
HandlerStep == rpc # "running" /\ lastOp' = "reschedule" /\ lastResult'[1] = FALSE

====
